---- MODULE Spec2Model ----
(***************************************************************************)
(* A model of ampm.py, "A siMple Process Monitor": the sampling loop `run` *)
(* (the producer, on the main thread), the reporter `print_lines` (the     *)
(* consumer, on the thread print_t), the UsageHistory both share, and the  *)
(* calculator CPUTime.usage.                                               *)
(*                                                                         *)
(* Python floats are modelled as exact rationals (records [n, d] in lowest *)
(* terms, d > 0); Python lists as sequences, so the list element x[i] is   *)
(* x[i + 1] here.  Every `with self._cv:` block is an acquire step, the    *)
(* statements of its body, and a release folded into the body's last step. *)
(***************************************************************************)
EXTENDS Integers, Sequences, FiniteSets

VARIABLES
    proc,        \* /proc/<pid>: what stat and smaps_rollup may hold when read
    CLK_TCK,     \* CPUTime.CLK_TCK, read from `getconf CLK_TCK` at import
    rate,        \* args.rate (a rational)
    duration,    \* args.duration (an int)
    times,       \* run: remaining ticks
    interval,    \* run: 1/rate
    prev_cpu,    \* run: the previous snapshot
    diff_cpu,    \* run: the snapshot of this tick
    cpu_usage,   \* run: the usage of this tick (append's argument cpu)
    rss,         \* run: the resident memory of this tick (append's argument rss)
    exc,         \* run: the exception in flight through `finally`
    h_cpu,       \* UsageHistory._cpu
    h_rss,       \* UsageHistory._rss
    h_index,     \* UsageHistory._index, the write cursor
    h_read,      \* UsageHistory._read, the read cursor
    h_term,      \* UsageHistory._term
    cv_owner,    \* the thread that holds the lock of UsageHistory._cv
    pc,          \* each thread's position
    got,         \* the value the last History call of each thread returned
    ret,         \* print_lines: the flag of the last get(), "True" or "False"
    returned,    \* the samples get() has returned with ok = True, in order
    summary,     \* print_summary: maxs, mins, aves
    output,      \* the kinds of the lines printed to stdout, in order
    stopped_by,  \* what ended the sampling loop
    exit_code    \* the exit status of the process, once it has ended

vars == <<proc, CLK_TCK, rate, duration, times, interval, prev_cpu, diff_cpu,
          cpu_usage, rss, exc, h_cpu, h_rss, h_index, h_read, h_term,
          cv_owner, pc, got, ret, returned, summary, output, stopped_by,
          exit_code>>

runVars == <<times, interval, prev_cpu, diff_cpu, cpu_usage, rss, exc>>
histVars == <<h_cpu, h_rss, h_index, h_read, h_term>>
cfgVars == <<proc, CLK_TCK, rate, duration>>
outVars == <<ret, summary, output, stopped_by, exit_code>>

\* The most samples a run appends before the model stops starting new ticks.
MaxSamples == 2

\* The most samples the History's clients append in SpecHistory.
MaxAppends == 3

Main == "main"
Printer == "print_t"
Threads == {Main, Printer}
Free == "free"
None == "none"

\* exit_code while the process runs.
NoExit == -1

-----------------------------------------------------------------------------
(* Rationals, the values of Python's floats.                               *)

Abs(x) == IF x < 0 THEN -x ELSE x

RECURSIVE GCD(_, _)
GCD(a, b) == IF b = 0 THEN a ELSE GCD(b, a % b)

\* n/d in lowest terms with a positive denominator; d # 0.
Frac(n, d) ==
    LET g == GCD(Abs(n), Abs(d))
        s == IF d < 0 THEN -1 ELSE 1
    IN  [n |-> s * (n \div g), d |-> s * (d \div g)]

F(i) == [n |-> i, d |-> 1]
FracMul(a, b) == Frac(a.n * b.n, a.d * b.d)
FracDiv(a, b) == Frac(a.n * b.d, a.d * b.n)
FracAdd(a, b) == Frac(a.n * b.d + b.n * a.d, a.d * b.d)
FracLT(a, b) == a.n * b.d < b.n * a.d
FracLE(a, b) == a.n * b.d <= b.n * a.d
FracGT(a, b) == FracLT(b, a)

\* Python's int() of a float: truncation toward zero.
PyInt(a) == IF a.n >= 0 THEN a.n \div a.d ELSE -((-a.n) \div a.d)

\* sys.maxsize, a tick budget no run uses up; TLC's largest integer stands
\* for 2^63 - 1.
MaxSize == 2147483647

-----------------------------------------------------------------------------
(* CPUTime                                                                 *)

\* CPUTime.__init__
CPUTime(utime, stime, cutime, cstime, num_threads) ==
    [utime |-> utime, stime |-> stime, cutime |-> cutime, cstime |-> cstime,
     cpu_max |-> FracMul(F(num_threads), F(100))]

\* CPUTime.usage: the local diff
TickDiff(self, diff_usage) ==
    (diff_usage.utime - self.utime) + (diff_usage.stime - self.stime)
    + (diff_usage.cutime - self.cutime) + (diff_usage.cstime - self.cstime)

\* CPUTime.usage: the local usage, before the cap
RawUsage(self, ival, diff_usage) ==
    FracMul(FracDiv(F(TickDiff(self, diff_usage)), FracMul(ival, F(CLK_TCK))),
            F(100))

\* A usage() without the cap.
usageUncapped(self, ival, diff_usage) ==
    RawUsage(self, ival, diff_usage)

\* A usage() that also clamps at zero.
usageFloored(self, ival, diff_usage) ==
    LET u == RawUsage(self, ival, diff_usage)
    IN  IF FracGT(u, diff_usage.cpu_max) THEN diff_usage.cpu_max
        ELSE IF FracLT(u, F(0)) THEN F(0) ELSE u

\* CPUTime.usage
usage(self, ival, diff_usage) ==
    LET u == RawUsage(self, ival, diff_usage)
    IN  IF FracGT(u, diff_usage.cpu_max) THEN diff_usage.cpu_max ELSE u

\* prev_cpu and diff_cpu before read_stat has returned anything.
NoSnapshot == CPUTime(0, 0, 0, 0, 0)

-----------------------------------------------------------------------------
(* What the kernel may hand to the readers.                                *)

\* read_stat: the snapshots /proc/<pid>/stat may hold
StatValues ==
    { CPUTime(0, 0, 0, 0, 1),
      CPUTime(150, 50, 30, 20, 2) }

\* read_smaps: the Rss line of /proc/<pid>/smaps_rollup
RssValues == {100, 300}

\* getconf CLK_TCK
ClkTckValues == {100}

\* --rate
Rates == { Frac(1, 2), F(50), Frac(101, 2), F(51) }

\* --duration
Durations == {0, 1, 4}

-----------------------------------------------------------------------------
(* UsageHistory                                                            *)

\* What a method returns: a flag, a pair (cpu, rss), or get()'s triple.
Result(ok, c, r) == [ok |-> ok, cpu |-> c, rss |-> r]
Flag(b) == Result(b, F(0), 0)
Pair(p) == Result(TRUE, p[1], p[2])

\* Nothing returned yet.
NoResult == Flag(FALSE)

\* UsageHistory.__init__
HistInit ==
    /\ h_cpu = <<>>
    /\ h_rss = <<>>
    /\ h_index = -1
    /\ h_read = -1
    /\ h_term = FALSE
    /\ cv_owner = Free

\* `with self._cv:` entered: the lock is taken when no thread holds it.
Acquire(t, from, to) ==
    /\ pc[t] = from
    /\ cv_owner = Free
    /\ cv_owner' = t
    /\ pc' = [pc EXCEPT ![t] = to]

\* A notify() that wakes nobody.
NotifyNobody(p) ==
    pc' = p

\* self._cv.notify(): one thread waiting in self._cv.wait(), if any, is woken;
\* it still has to take the lock again. `p` is pc with the caller moved on.
Notify(p) ==
    IF \E w \in Threads : p[w] = "get_wait"
    THEN \E w \in {x \in Threads : p[x] = "get_wait"} :
            pc' = [p EXCEPT ![w] = "get_woken"]
    ELSE pc' = p

\* What a UsageHistory method leaves alone.
OutsideHist == UNCHANGED <<cfgVars, runVars, outVars>>

\* UsageHistory.append, line 47
AppendCpu(t) ==
    /\ pc[t] = "append_l47"
    /\ h_cpu' = Append(h_cpu, cpu_usage)
    /\ pc' = [pc EXCEPT ![t] = "append_l48"]
    /\ UNCHANGED <<h_rss, h_index, h_read, h_term, cv_owner>>

\* UsageHistory.append, line 48
AppendRss(t) ==
    /\ pc[t] = "append_l48"
    /\ h_rss' = Append(h_rss, rss)
    /\ pc' = [pc EXCEPT ![t] = "append_l49"]
    /\ UNCHANGED <<h_cpu, h_index, h_read, h_term, cv_owner>>

\* UsageHistory.append, line 49
AppendIndex(t) ==
    /\ pc[t] = "append_l49"
    /\ h_index' = h_index + 1
    /\ pc' = [pc EXCEPT ![t] = "append_l50"]
    /\ UNCHANGED <<h_cpu, h_rss, h_read, h_term, cv_owner>>

\* An append() that ends without notify().
AppendWithoutNotify(t) ==
    /\ pc[t] = "append_l50"
    /\ pc' = [pc EXCEPT ![t] = "append_ret"]
    /\ cv_owner' = Free
    /\ UNCHANGED histVars

\* UsageHistory.append, line 50, and the end of the with block
AppendNotify(t) ==
    /\ pc[t] = "append_l50"
    /\ Notify([pc EXCEPT ![t] = "append_ret"])
    /\ cv_owner' = Free
    /\ UNCHANGED histVars

\* UsageHistory.append
append(t) ==
    \/ Acquire(t, "append_acquire", "append_l47")
           /\ UNCHANGED <<histVars, got, returned>> /\ OutsideHist
    \/ AppendCpu(t) /\ UNCHANGED <<got, returned>> /\ OutsideHist
    \/ AppendRss(t) /\ UNCHANGED <<got, returned>> /\ OutsideHist
    \/ AppendIndex(t) /\ UNCHANGED <<got, returned>> /\ OutsideHist
    \/ AppendNotify(t) /\ UNCHANGED <<got, returned>> /\ OutsideHist

\* A loop test that ignores the termination flag.
MustWaitIgnoringTerm == h_index = h_read

\* UsageHistory.get: the loop test of line 54
MustWait == h_index = h_read /\ ~h_term

\* UsageHistory.get: the test of line 56
HasUnread == h_index # h_read

\* UsageHistory.get: the sample line 58 returns
GetSample == [cpu |-> h_cpu[h_index + 1], rss |-> h_rss[h_index + 1]]

\* A wait() that keeps the lock while the thread is blocked.
GetTestKeepsLock(t) ==
    /\ pc[t] = "get_l54"
    /\ IF MustWait
       THEN /\ pc' = [pc EXCEPT ![t] = "get_wait"]
            /\ UNCHANGED cv_owner
       ELSE /\ pc' = [pc EXCEPT ![t] = "get_l56"]
            /\ UNCHANGED cv_owner
    /\ UNCHANGED <<histVars, got, returned>>

\* UsageHistory.get, line 54 and the wait() of line 55: the lock is released
\* and the thread blocks
GetTest(t) ==
    /\ pc[t] = "get_l54"
    /\ IF MustWait
       THEN /\ pc' = [pc EXCEPT ![t] = "get_wait"]
            /\ cv_owner' = Free
       ELSE /\ pc' = [pc EXCEPT ![t] = "get_l56"]
            /\ UNCHANGED cv_owner
    /\ UNCHANGED <<histVars, got, returned>>

\* self._cv.wait() of line 55 woken without a notify()
GetSpuriousWake(t) ==
    /\ pc[t] = "get_wait"
    /\ pc' = [pc EXCEPT ![t] = "get_woken"]
    /\ UNCHANGED <<histVars, cv_owner, got, returned>>

\* A get() that moves the read cursor by two.
GetReturnSkipsOne(t) ==
    /\ pc[t] = "get_l56"
    /\ IF HasUnread
       THEN /\ h_read' = h_read + 2
            /\ got' = [got EXCEPT ![t] = Result(TRUE, GetSample.cpu, GetSample.rss)]
            /\ returned' = Append(returned, GetSample)
       ELSE /\ got' = [got EXCEPT ![t] = Result(FALSE, F(0), 0)]
            /\ UNCHANGED <<h_read, returned>>
    /\ cv_owner' = Free
    /\ pc' = [pc EXCEPT ![t] = "get_ret"]
    /\ UNCHANGED <<h_cpu, h_rss, h_index, h_term>>

\* UsageHistory.get, lines 56-59, and the end of the with block
GetReturn(t) ==
    /\ pc[t] = "get_l56"
    /\ IF HasUnread
       THEN /\ h_read' = h_read + 1
            /\ got' = [got EXCEPT ![t] = Result(TRUE, GetSample.cpu, GetSample.rss)]
            /\ returned' = Append(returned, GetSample)
       ELSE /\ got' = [got EXCEPT ![t] = Result(FALSE, F(0), 0)]
            /\ UNCHANGED <<h_read, returned>>
    /\ cv_owner' = Free
    /\ pc' = [pc EXCEPT ![t] = "get_ret"]
    /\ UNCHANGED <<h_cpu, h_rss, h_index, h_term>>

\* A get() that tests its condition once, with `if` in place of `while`.
getWithoutRetest(t) ==
    \/ Acquire(t, "get_acquire", "get_l54")
           /\ UNCHANGED <<histVars, got, returned>> /\ OutsideHist
    \/ GetTest(t) /\ OutsideHist
    \/ Acquire(t, "get_woken", "get_l56")
           /\ UNCHANGED <<histVars, got, returned>> /\ OutsideHist
    \/ GetReturn(t) /\ OutsideHist

\* UsageHistory.get
get(t) ==
    \/ Acquire(t, "get_acquire", "get_l54")
           /\ UNCHANGED <<histVars, got, returned>> /\ OutsideHist
    \/ GetTest(t) /\ OutsideHist
    \/ \* wait() returns once it holds the lock again
       Acquire(t, "get_woken", "get_l54")
           /\ UNCHANGED <<histVars, got, returned>> /\ OutsideHist
    \/ GetReturn(t) /\ OutsideHist

\* A thread blocked in get()'s wait() wakes though nothing notified it.
SpuriousWakeup == \E t \in {Printer} : GetSpuriousWake(t) /\ OutsideHist

\* A term() that flips the flag.
TermToggle(t) ==
    /\ pc[t] = "term_l63"
    /\ h_term' = ~h_term
    /\ pc' = [pc EXCEPT ![t] = "term_l64"]
    /\ UNCHANGED <<h_cpu, h_rss, h_index, h_read, cv_owner>>

\* UsageHistory.term, line 63
TermSet(t) ==
    /\ pc[t] = "term_l63"
    /\ h_term' = TRUE
    /\ pc' = [pc EXCEPT ![t] = "term_l64"]
    /\ UNCHANGED <<h_cpu, h_rss, h_index, h_read, cv_owner>>

\* UsageHistory.term, line 64, and the end of the with block
TermNotify(t) ==
    /\ pc[t] = "term_l64"
    /\ Notify([pc EXCEPT ![t] = "term_ret"])
    /\ cv_owner' = Free
    /\ UNCHANGED histVars

\* UsageHistory.term
term(t) ==
    \/ Acquire(t, "term_acquire", "term_l63")
           /\ UNCHANGED <<histVars, got, returned>> /\ OutsideHist
    \/ TermSet(t) /\ UNCHANGED <<got, returned>> /\ OutsideHist
    \/ TermNotify(t) /\ UNCHANGED <<got, returned>> /\ OutsideHist

\* Python's max(), min() and sum() of a list, as a left-to-right scan
RECURSIVE MaxFrac(_)
MaxFrac(s) ==
    IF Len(s) = 1 THEN s[1]
    ELSE LET m == MaxFrac(SubSeq(s, 1, Len(s) - 1))
         IN  IF FracGT(s[Len(s)], m) THEN s[Len(s)] ELSE m

RECURSIVE MinFrac(_)
MinFrac(s) ==
    IF Len(s) = 1 THEN s[1]
    ELSE LET m == MinFrac(SubSeq(s, 1, Len(s) - 1))
         IN  IF FracLT(s[Len(s)], m) THEN s[Len(s)] ELSE m

RECURSIVE SumFrac(_)
SumFrac(s) ==
    IF Len(s) = 0 THEN F(0)
    ELSE FracAdd(SumFrac(SubSeq(s, 1, Len(s) - 1)), s[Len(s)])

RECURSIVE MaxInt(_)
MaxInt(s) ==
    IF Len(s) = 1 THEN s[1]
    ELSE LET m == MaxInt(SubSeq(s, 1, Len(s) - 1))
         IN  IF s[Len(s)] > m THEN s[Len(s)] ELSE m

RECURSIVE MinInt(_)
MinInt(s) ==
    IF Len(s) = 1 THEN s[1]
    ELSE LET m == MinInt(SubSeq(s, 1, Len(s) - 1))
         IN  IF s[Len(s)] < m THEN s[Len(s)] ELSE m

RECURSIVE SumInt(_)
SumInt(s) ==
    IF Len(s) = 0 THEN 0 ELSE SumInt(SubSeq(s, 1, Len(s) - 1)) + s[Len(s)]

\* A method whose body is one return statement under the lock.
Observe(t, from, body, to, value) ==
    \/ Acquire(t, from, body) /\ UNCHANGED <<histVars, got, returned>> /\ OutsideHist
    \/ /\ pc[t] = body
       /\ got' = [got EXCEPT ![t] = value]
       /\ cv_owner' = Free
       /\ pc' = [pc EXCEPT ![t] = to]
       /\ UNCHANGED <<histVars, returned>>
       /\ OutsideHist

\* UsageHistory.is_term: the value returned
IsTermValue == h_term

\* UsageHistory.empty: the value returned
EmptyValue == Len(h_cpu) = 0 \/ Len(h_rss) = 0

\* A max() that looks at the latest sample only.
MaxValueLatest == <<h_cpu[Len(h_cpu)], h_rss[Len(h_rss)]>>

\* UsageHistory.max: the value returned
MaxValue == <<MaxFrac(h_cpu), MaxInt(h_rss)>>

\* UsageHistory.min: the value returned
MinValue == <<MinFrac(h_cpu), MinInt(h_rss)>>

\* UsageHistory.ave: the value returned
AveValue ==
    <<FracDiv(SumFrac(h_cpu), F(Len(h_cpu))), SumInt(h_rss) \div Len(h_rss)>>

is_term(t) ==
    Observe(t, "is_term_acquire", "is_term_l68", "is_term_ret", Flag(IsTermValue))
empty(t) ==
    Observe(t, "empty_acquire", "empty_l72", "empty_ret", Flag(EmptyValue))
max(t) == Observe(t, "max_acquire", "max_l76", "max_ret", Pair(MaxValue))
min(t) == Observe(t, "min_acquire", "min_l80", "min_ret", Pair(MinValue))
ave(t) == Observe(t, "ave_acquire", "ave_l84", "ave_ret", Pair(AveValue))

-----------------------------------------------------------------------------
(* The program: __main__, run, print_lines, print_summary                  *)

Goto(t, to) == pc' = [pc EXCEPT ![t] = to]

\* __main__, line 193: the rate is above half the clock-tick frequency
\* A limit that also refuses a rate equal to it.
RateReachesLimit == FracLE(FracDiv(F(CLK_TCK), F(2)), rate)

RateExceeds == FracGT(rate, FracDiv(F(CLK_TCK), F(2)))

\* __main__, lines 193-198
MainCheck ==
    /\ pc[Main] = "main_l193"
    /\ IF RateExceeds
       THEN /\ exit_code' = 1
            /\ Goto(Main, "exited")
       ELSE /\ Goto(Main, "run_l133")
            /\ UNCHANGED exit_code
    /\ UNCHANGED <<cfgVars, runVars, histVars, cv_owner, got, ret, returned,
                   summary, output, stopped_by>>

\* A tick budget that counts a started second as a whole one.
TimesRoundedUp ==
    IF duration = 0 THEN MaxSize ELSE PyInt(FracMul(F(duration), rate)) + 1

\* run, lines 133-136: the tick budget
Times == IF duration = 0 THEN MaxSize ELSE PyInt(FracMul(F(duration), rate))

\* run, lines 133-139
RunInit ==
    /\ pc[Main] = "run_l133"
    /\ times' = Times
    /\ interval' = FracDiv(F(1), rate)
    /\ Goto(Main, "run_l140")
    /\ UNCHANGED <<cfgVars, prev_cpu, diff_cpu, cpu_usage, rss, exc, histVars,
                   cv_owner, got, returned, outVars>>

\* An exception leaves run before any thread is started: the process ends
\* with a traceback.
Crash ==
    /\ exit_code' = 1
    /\ Goto(Main, "exited")

\* run, lines 140-142: the baseline snapshot, or read_stat raises
ReadBaseline ==
    /\ pc[Main] = "run_l140"
    /\ \/ /\ \E s \in proc.stat : prev_cpu' = s
          /\ Goto(Main, "run_l141")
          /\ UNCHANGED <<exc, exit_code>>
       \/ /\ exc' = "OSError"
          /\ Crash
          /\ UNCHANGED prev_cpu
    /\ UNCHANGED <<cfgVars, times, interval, diff_cpu, cpu_usage, rss, histVars,
                   cv_owner, got, ret, returned, summary, output, stopped_by>>

\* run, line 141: the command name, or read_comm raises
ReadComm ==
    /\ pc[Main] = "run_l141"
    /\ \/ /\ Goto(Main, "run_l144")
          /\ UNCHANGED <<exc, exit_code>>
       \/ /\ exc' = "OSError"
          /\ Crash
    /\ UNCHANGED <<cfgVars, times, interval, prev_cpu, diff_cpu, cpu_usage, rss,
                   histVars, cv_owner, got, ret, returned, summary, output, stopped_by>>

\* run, lines 144-147: the History is made and print_t started
StartThread ==
    /\ pc[Main] = "run_l144"
    /\ h_cpu' = <<>>
    /\ h_rss' = <<>>
    /\ h_index' = -1
    /\ h_read' = -1
    /\ h_term' = FALSE
    /\ cv_owner' = Free
    /\ pc' = [pc EXCEPT ![Main] = "run_l150", ![Printer] = "print_l121"]
    /\ UNCHANGED <<cfgVars, runVars, got, returned, outVars>>

\* run, line 150: the loop test. The model starts no tick once MaxSamples
\* values are in the History.
LoopTest ==
    /\ pc[Main] = "run_l150"
    /\ IF times > 0
       THEN /\ Len(h_cpu) < MaxSamples
            /\ Goto(Main, "run_l151")
            /\ UNCHANGED stopped_by
       ELSE /\ Goto(Main, "run_l167")
            /\ stopped_by' = "exhausted"
    /\ UNCHANGED <<cfgVars, runVars, histVars, cv_owner, got, ret, returned,
                   summary, output, exit_code>>

\* run, lines 151-155: the sleep to the next tick
Sleep ==
    /\ pc[Main] = "run_l151"
    /\ Goto(Main, "run_l156")
    /\ UNCHANGED <<cfgVars, runVars, histVars, cv_owner, got, returned, outVars>>

\* A reader raises inside the try block: the finally block runs with the
\* exception in flight.
\* A failed read that is swallowed: the tick goes on to its append.
ReaderFailsIgnored ==
    /\ exc' = "OSError"
    /\ stopped_by' = stopped_by
    /\ Goto(Main, "run_l162")

ReaderFails ==
    /\ exc' = "OSError"
    /\ stopped_by' = "failure"
    /\ Goto(Main, "run_l167")

\* run, line 156: this tick's snapshot, or read_stat raises
ReadStat ==
    /\ pc[Main] = "run_l156"
    /\ \/ /\ \E s \in proc.stat : diff_cpu' = s
          /\ Goto(Main, "run_l157")
          /\ UNCHANGED <<exc, stopped_by>>
       \/ /\ ReaderFails
          /\ UNCHANGED diff_cpu
    /\ UNCHANGED <<cfgVars, times, interval, prev_cpu, cpu_usage, rss, histVars,
                   cv_owner, got, ret, returned, summary, output, exit_code>>

\* run, line 157
ComputeUsage ==
    /\ pc[Main] = "run_l157"
    /\ cpu_usage' = usage(prev_cpu, interval, diff_cpu)
    /\ Goto(Main, "run_l158")
    /\ UNCHANGED <<cfgVars, times, interval, prev_cpu, diff_cpu, rss, exc,
                   histVars, cv_owner, got, returned, outVars>>

\* run, line 158
KeepSnapshot ==
    /\ pc[Main] = "run_l158"
    /\ prev_cpu' = diff_cpu
    /\ Goto(Main, "run_l160")
    /\ UNCHANGED <<cfgVars, times, interval, diff_cpu, cpu_usage, rss, exc,
                   histVars, cv_owner, got, returned, outVars>>

\* run, line 160: this tick's resident memory, or read_smaps raises
ReadSmaps ==
    /\ pc[Main] = "run_l160"
    /\ \/ /\ \E r \in proc.rss : rss' = r
          /\ Goto(Main, "run_l162")
          /\ UNCHANGED <<exc, stopped_by>>
       \/ /\ ReaderFails
          /\ UNCHANGED rss
    /\ UNCHANGED <<cfgVars, times, interval, prev_cpu, diff_cpu, cpu_usage,
                   histVars, cv_owner, got, ret, returned, summary, output, exit_code>>

\* run, line 162: hist.append(cpu_usage, rss) is called
CallAppend ==
    /\ pc[Main] = "run_l162"
    /\ Goto(Main, "append_acquire")
    /\ UNCHANGED <<cfgVars, runVars, histVars, cv_owner, got, returned, outVars>>

\* run, line 163
CountTick ==
    /\ pc[Main] = "append_ret"
    /\ times' = times - 1
    /\ Goto(Main, "run_l150")
    /\ UNCHANGED <<cfgVars, interval, prev_cpu, diff_cpu, cpu_usage, rss, exc,
                   histVars, cv_owner, got, returned, outVars>>

\* The positions of the main thread inside the try block of lines 149-163,
\* hist.append's body included.
TryBlock ==
    {"run_l150", "run_l151", "run_l156", "run_l157", "run_l158", "run_l160",
     "run_l162", "append_acquire", "append_l47", "append_l48", "append_l49",
     "append_l50", "append_ret"}

\* An interrupt caught inside the loop body: the loop goes on.
InterruptResumes ==
    /\ pc[Main] \in TryBlock
    /\ cv_owner' = IF cv_owner = Main THEN Free ELSE cv_owner
    /\ stopped_by' = "interrupt"
    /\ Goto(Main, "run_l150")
    /\ UNCHANGED <<cfgVars, runVars, histVars, got, ret, returned, summary,
                   output, exit_code>>

\* An interrupt handled by an except clause that has no finally block after it.
InterruptSkipsTerm ==
    /\ pc[Main] \in TryBlock
    /\ cv_owner' = IF cv_owner = Main THEN Free ELSE cv_owner
    /\ stopped_by' = "interrupt"
    /\ Goto(Main, "term_ret")
    /\ UNCHANGED <<cfgVars, runVars, histVars, got, ret, returned, summary,
                   output, exit_code>>

\* run, lines 164-165: KeyboardInterrupt, raised in the main thread between
\* any two steps of the try block, is caught and dropped. Unwinding out of
\* append's with block releases the lock.
Interrupt ==
    /\ pc[Main] \in TryBlock
    /\ cv_owner' = IF cv_owner = Main THEN Free ELSE cv_owner
    /\ stopped_by' = "interrupt"
    /\ Goto(Main, "run_l167")
    /\ UNCHANGED <<cfgVars, runVars, histVars, got, ret, returned, summary,
                   output, exit_code>>

\* run, line 167: hist.term() is called
CallTerm ==
    /\ pc[Main] = "run_l167"
    /\ Goto(Main, "term_acquire")
    /\ UNCHANGED <<cfgVars, runVars, histVars, cv_owner, got, returned, outVars>>

\* A join() that returns at once.
JoinWithoutWaiting ==
    /\ pc[Main] = "term_ret"
    /\ Goto(Main, "empty_acquire")
    /\ UNCHANGED <<cfgVars, runVars, histVars, cv_owner, got, returned, outVars>>

\* run, line 168: print_t.join() returns once print_lines has returned
Join ==
    /\ pc[Main] = "term_ret"
    /\ pc[Printer] = "print_done"
    /\ Goto(Main, "empty_acquire")
    /\ UNCHANGED <<cfgVars, runVars, histVars, cv_owner, got, returned, outVars>>

\* run, lines 169-170
CheckEmpty ==
    /\ pc[Main] = "empty_ret"
    /\ IF ~got[Main].ok THEN Goto(Main, "max_acquire") ELSE Goto(Main, "run_end")
    /\ UNCHANGED <<cfgVars, runVars, histVars, cv_owner, got, returned, outVars>>

\* print_summary, lines 109-111
SummaryStat(from, to) ==
    /\ pc[Main] = from
    /\ Goto(Main, to)
    /\ UNCHANGED <<cfgVars, runVars, histVars, cv_owner, got, ret, returned,
                   output, stopped_by, exit_code>>

SummaryStats ==
    \/ SummaryStat("max_ret", "min_acquire")
          /\ summary' = [summary EXCEPT !.maxs = got[Main]]
    \/ SummaryStat("min_ret", "ave_acquire")
          /\ summary' = [summary EXCEPT !.mins = got[Main]]
    \/ SummaryStat("ave_ret", "summary_l112")
          /\ summary' = [summary EXCEPT !.aves = got[Main]]

\* print_summary, lines 112-116
PrintSummary ==
    /\ pc[Main] = "summary_l112"
    /\ output' = Append(output, "summary")
    /\ Goto(Main, "run_end")
    /\ UNCHANGED <<cfgVars, runVars, histVars, cv_owner, got, ret, returned,
                   summary, stopped_by, exit_code>>

\* The finally block is left: an exception in flight ends the process with
\* a traceback, otherwise run returns and the process exits normally.
RunEnd ==
    /\ pc[Main] = "run_end"
    /\ exit_code' = IF exc # None THEN 1 ELSE 0
    /\ Goto(Main, "exited")
    /\ UNCHANGED <<cfgVars, runVars, histVars, cv_owner, got, ret, returned,
                   summary, output, stopped_by>>

\* print_lines, line 121
PrintHeader ==
    /\ pc[Printer] = "print_l121"
    /\ output' = Append(output, "header")
    /\ Goto(Printer, "is_term_acquire")
    /\ UNCHANGED <<cfgVars, runVars, histVars, cv_owner, got, ret, returned,
                   summary, stopped_by, exit_code>>

\* print_lines, line 122: the loop test on what hist.is_term() returned
PrintLoop ==
    /\ pc[Printer] = "is_term_ret"
    /\ IF ~got[Printer].ok THEN Goto(Printer, "get_acquire")
                           ELSE Goto(Printer, "print_done")
    /\ UNCHANGED <<cfgVars, runVars, histVars, cv_owner, got, returned, outVars>>

\* print_lines, lines 123-125: the sample get() returned is printed
PrintLine ==
    /\ pc[Printer] = "get_ret"
    /\ ret' = IF got[Printer].ok THEN "True" ELSE "False"
    /\ output' = IF got[Printer].ok THEN Append(output, "line") ELSE output
    /\ Goto(Printer, "is_term_acquire")
    /\ UNCHANGED <<cfgVars, runVars, histVars, cv_owner, got, returned,
                   summary, stopped_by, exit_code>>

\* The state of the locals before they are assigned.
Unset ==
    /\ times = 0
    /\ cpu_usage = F(0)
    /\ rss = 0
    /\ exc = None
    /\ got = [t \in Threads |-> NoResult]
    /\ ret = None
    /\ returned = <<>>
    /\ summary = [maxs |-> NoResult, mins |-> NoResult, aves |-> NoResult]
    /\ output = <<>>
    /\ stopped_by = None
    /\ exit_code = NoExit

\* The arguments as parsed, before line 193.
Started ==
    /\ CLK_TCK \in ClkTckValues
    /\ rate \in Rates
    /\ duration \in Durations
    /\ interval = F(0)
    /\ prev_cpu = NoSnapshot
    /\ diff_cpu = NoSnapshot
    /\ Unset
    /\ HistInit
    /\ pc = [t \in Threads |-> IF t = Main THEN "main_l193" ELSE "not_started"]

\* The process starts, monitoring a process whose counters move both ways.
Init ==
    /\ proc = [stat |-> StatValues, rss |-> RssValues]
    /\ Started

Producer ==
    \/ MainCheck
    \/ RunInit
    \/ ReadBaseline
    \/ ReadComm
    \/ StartThread
    \/ LoopTest
    \/ Sleep
    \/ ReadStat
    \/ ComputeUsage
    \/ KeepSnapshot
    \/ ReadSmaps
    \/ CallAppend
    \/ append(Main)
    \/ CountTick
    \/ CallTerm
    \/ term(Main)
    \/ Join
    \/ empty(Main)
    \/ CheckEmpty
    \/ max(Main)
    \/ min(Main)
    \/ ave(Main)
    \/ SummaryStats
    \/ PrintSummary
    \/ RunEnd

Consumer ==
    \/ PrintHeader
    \/ is_term(Printer)
    \/ PrintLoop
    \/ get(Printer)
    \/ PrintLine

Next == Producer \/ Consumer \/ Interrupt \/ SpuriousWakeup

Spec == Init /\ [][Next]_vars

\* The same program monitoring an idle process (one stat content, one rss
\* content): no branch of either thread depends on the values read, only on
\* whether the read succeeds.
InitFair ==
    /\ proc = [stat |-> {CPUTime(0, 0, 0, 0, 1)}, rss |-> {100}]
    /\ Started

\* Both threads are scheduled while they can run. Nothing makes an interrupt
\* arrive or a wait() wake by itself.
FairSpec == InitFair /\ [][Next]_vars /\ WF_vars(Producer) /\ WF_vars(Consumer)

-----------------------------------------------------------------------------
(* The UsageHistory under any client: one thread that appends, terminates  *)
(* and observes in any order, and one that reads.                          *)

\* The samples the client appends.
Samples ==
    { [cpu |-> F(10), rss |-> 100],
      [cpu |-> F(50), rss |-> 300],
      [cpu |-> F(30), rss |-> 200] }

ClientCall(t, to) ==
    /\ pc[t] = "client"
    /\ Goto(t, to)
    /\ UNCHANGED <<cfgVars, times, interval, prev_cpu, diff_cpu, exc, histVars,
                   cv_owner, got, returned, outVars>>

\* hist.append(cpu, rss) is called
ClientAppend ==
    /\ Len(h_cpu) < MaxAppends
    /\ \E s \in Samples : cpu_usage' = s.cpu /\ rss' = s.rss
    /\ ClientCall(Main, "append_acquire")

\* hist.term(), hist.empty(), hist.max(), hist.min() or hist.ave() is
\* called; the last three on a History that is not empty
ClientWriterCall ==
    \/ ClientCall(Main, "term_acquire") /\ UNCHANGED <<cpu_usage, rss>>
    \/ ClientCall(Main, "empty_acquire") /\ UNCHANGED <<cpu_usage, rss>>
    \/ ~EmptyValue /\ ClientCall(Main, "max_acquire") /\ UNCHANGED <<cpu_usage, rss>>
    \/ ~EmptyValue /\ ClientCall(Main, "min_acquire") /\ UNCHANGED <<cpu_usage, rss>>
    \/ ~EmptyValue /\ ClientCall(Main, "ave_acquire") /\ UNCHANGED <<cpu_usage, rss>>

\* hist.get() or hist.is_term() is called
ClientReaderCall ==
    \/ ClientCall(Printer, "get_acquire") /\ UNCHANGED <<cpu_usage, rss>>
    \/ ClientCall(Printer, "is_term_acquire") /\ UNCHANGED <<cpu_usage, rss>>

\* The call has returned and the client drops the value.
ClientReturn(t) ==
    /\ pc[t] \in {"append_ret", "term_ret", "empty_ret", "max_ret", "min_ret",
                  "ave_ret", "get_ret", "is_term_ret"}
    /\ Goto(t, "client")
    /\ got' = [got EXCEPT ![t] = NoResult]
    /\ UNCHANGED <<cfgVars, runVars, histVars, cv_owner, returned, outVars>>

InitHistory ==
    /\ proc = [stat |-> {}, rss |-> {}]
    /\ CLK_TCK = 100
    /\ rate = F(1)
    /\ duration = 0
    /\ interval = F(1)
    /\ prev_cpu = NoSnapshot
    /\ diff_cpu = NoSnapshot
    /\ Unset
    /\ HistInit
    /\ pc = [t \in Threads |-> "client"]

NextHistory ==
    \/ ClientAppend
    \/ ClientWriterCall
    \/ ClientReaderCall
    \/ ClientReturn(Main)
    \/ ClientReturn(Printer)
    \/ append(Main)
    \/ term(Main)
    \/ empty(Main)
    \/ max(Main)
    \/ min(Main)
    \/ ave(Main)
    \/ get(Printer)
    \/ is_term(Printer)
    \/ SpuriousWakeup

SpecHistory == InitHistory /\ [][NextHistory]_vars

-----------------------------------------------------------------------------
(* CPUTime.usage on its own, over a range of arguments.                    *)

UsageSnapshots ==
    { CPUTime(u, s, cu, cs, n) :
        u \in {0, 50, 200}, s \in {0, 50}, cu \in {0, 30}, cs \in {0, 20},
        n \in {1, 2} }

UsageIntervals == { Frac(1, 2), F(1), F(2) }

UsageClkTcks == {100, 250}

\* prev_cpu.usage(interval, diff_cpu) is called
UsageCall ==
    /\ pc[Main] = "usage_call"
    /\ cpu_usage' = usage(prev_cpu, interval, diff_cpu)
    /\ Goto(Main, "usage_ret")
    /\ UNCHANGED <<cfgVars, times, interval, prev_cpu, diff_cpu, rss, exc,
                   histVars, cv_owner, got, returned, outVars>>

InitUsage ==
    /\ proc = [stat |-> {}, rss |-> {}]
    /\ CLK_TCK \in UsageClkTcks
    /\ rate = F(1)
    /\ duration = 0
    /\ interval \in UsageIntervals
    /\ prev_cpu \in UsageSnapshots
    /\ diff_cpu \in UsageSnapshots
    /\ Unset
    /\ HistInit
    /\ pc = [t \in Threads |-> IF t = Main THEN "usage_call" ELSE "not_started"]

SpecUsage == InitUsage /\ [][UsageCall]_vars

-----------------------------------------------------------------------------
(* Properties                                                              *)

\* The samples append() has stored, in order, up to the write cursor.
Stored == [i \in 1..(h_index + 1) |-> [cpu |-> h_cpu[i], rss |-> h_rss[i]]]

\* The number of sample lines printed.
Lines == Cardinality({i \in 1..Len(output) : output[i] = "line"})

\* The main thread is past print_t.join().
AfterJoin ==
    {"empty_acquire", "empty_l72", "empty_ret", "max_acquire", "max_l76",
     "max_ret", "min_acquire", "min_l80", "min_ret", "ave_acquire", "ave_l84",
     "ave_ret", "summary_l112", "run_end"}

Joined ==
    \/ pc[Main] \in AfterJoin
    \/ pc[Main] = "exited" /\ stopped_by # None

\* C1: the samples get() has returned with ok = True are, at every moment, a
\* prefix of the samples appended: same order, none skipped, none twice.
C1_ReturnedIsPrefix ==
    /\ Len(returned) <= h_index + 1
    /\ \A i \in 1..Len(returned) : returned[i] = Stored[i]

\* C2: once the join has returned, every appended sample has been printed.
C2_DrainComplete == Joined => Lines = h_index + 1

\* C3: once terminate() has set the flag, the consumer leaves its loop and
\* the producer's join returns, whatever the consumer was doing.
C3_ShutdownLiveness == h_term ~> (pc[Printer] = "print_done" /\ Joined)

\* The consumer was inside get() with nothing to read when the flag was set:
\* its last get() returned ok = False, it has left the loop and the join has
\* returned.
C3_Witness ==
    /\ h_term
    /\ ret = "False"
    /\ pc[Printer] = "print_done"
    /\ Joined

\* A get() that holds the lock of a terminated, fully read History.
DrainedGet ==
    /\ h_term
    /\ h_read = h_index
    /\ pc[Printer] \in {"get_l54", "get_l56"}

\* C4: once term() has been called and the read cursor has reached the write
\* cursor, a get() never waits, leaves the read cursor (and the History) as
\* they are, and returns ok = False; the History is then still terminated and
\* drained, so the same holds for the next call.
C4_DrainedGetReturnsFalse ==
    [][DrainedGet =>
          /\ pc'[Printer] \in {pc[Printer], "get_l56", "get_ret"}
          /\ UNCHANGED histVars
          /\ pc'[Printer] = "get_ret" => got'[Printer] = Result(FALSE, F(0), 0)]_vars

C4_Witness ==
    /\ h_term
    /\ h_index >= 0
    /\ h_read = h_index
    /\ pc[Printer] = "get_ret"
    /\ got[Printer] = Result(FALSE, F(0), 0)
    /\ Len(returned) = h_index + 1
\* The thread count a snapshot was built with.
ThreadCount(snapshot) ==
    CHOOSE n \in 0..2 :
        snapshot = CPUTime(snapshot.utime, snapshot.stime, snapshot.cutime,
                           snapshot.cstime, n)

\* The four counters of a snapshot added up.
Ticks(snapshot) ==
    snapshot.utime + snapshot.stime + snapshot.cutime + snapshot.cstime

\* C5: usage() returns min(raw, 100 * current thread count), where raw is
\* 100 * (tick delta) / (interval * clock ticks): never above the cap, a
\* negative delta gives the negative raw value, and delta 200, interval 1,
\* 100 clock ticks, 1 thread gives 100. raw is rawN / rawD with rawD > 0.
C5_UsageIsMinOfRawAndCap ==
    pc[Main] = "usage_ret" =>
        LET delta == Ticks(diff_cpu) - Ticks(prev_cpu)
            rawN  == 100 * delta * interval.d
            rawD  == interval.n * CLK_TCK
            cap   == 100 * ThreadCount(diff_cpu)
        IN  /\ rawD > 0
            /\ cpu_usage.d > 0
            /\ cpu_usage.n <= cap * cpu_usage.d
            /\ IF rawN <= cap * rawD
               THEN cpu_usage.n * rawD = rawN * cpu_usage.d
               ELSE cpu_usage = F(cap)
            /\ delta < 0 => cpu_usage.n < 0
            /\ (delta = 200 /\ interval = F(1) /\ CLK_TCK = 100 /\ cap = 100)
                   => cpu_usage = F(100)

C5_Witness ==
    /\ pc[Main] = "usage_ret"
    /\ Ticks(diff_cpu) - Ticks(prev_cpu) = 200
    /\ interval = F(1)
    /\ CLK_TCK = 100
    /\ ThreadCount(diff_cpu) = 1
    /\ cpu_usage = F(100)
\* The main thread's positions from the computed usage to its append.
UsageInHand == {"run_l158", "run_l160", "run_l162", "append_acquire", "append_l47"}

\* A step that appends a cpu value.
CpuAppended == Len(h_cpu') > Len(h_cpu)

\* The cpu value the step appends.
NewCpu == h_cpu'[Len(h_cpu')]

\* C6 as stated: every cpu value the sampling loop appends lies within
\* [0, 100 * thread count of the later snapshot].
C6_AppendedWithinZeroAndCap ==
    [][CpuAppended =>
          /\ NewCpu.n >= 0
          /\ FracLE(NewCpu, F(100 * ThreadCount(diff_cpu)))]_vars

\* C6, amended: every cpu value the sampling loop appends is the one computed
\* from this tick's two snapshots, is at most 100 * the later snapshot's thread
\* count, is >= 0 when the tick delta is >= 0 and is negative when the delta
\* is negative.
C6_AppendedAtMostCap ==
    [][/\ (pc[Main] = "run_l157" /\ pc'[Main] = "run_l158") =>
             LET delta == Ticks(diff_cpu) - Ticks(prev_cpu)
             IN  /\ FracLE(cpu_usage', F(100 * ThreadCount(diff_cpu)))
                 /\ delta >= 0 => cpu_usage'.n >= 0
                 /\ delta < 0 => cpu_usage'.n < 0
       /\ pc[Main] \in UsageInHand => UNCHANGED <<cpu_usage, diff_cpu>>
       /\ CpuAppended =>
             /\ pc[Main] = "append_l47"
             /\ h_cpu' = Append(h_cpu, cpu_usage)
             /\ FracLE(NewCpu, F(100 * ThreadCount(diff_cpu)))]_vars

C6_Witness ==
    /\ h_index = 1
    /\ h_cpu[1] = F(200)
    /\ h_cpu[2].n < 0
\* The sums of the two stored columns from position i on.
RECURSIVE CpuSumFrom(_)
CpuSumFrom(i) ==
    IF i > Len(h_cpu) THEN F(0) ELSE FracAdd(h_cpu[i], CpuSumFrom(i + 1))

RECURSIVE RssSumFrom(_)
RssSumFrom(i) ==
    IF i > Len(h_rss) THEN 0 ELSE h_rss[i] + RssSumFrom(i + 1)

\* The stored samples are the three of the example.
ExampleStored ==
    /\ h_index = 2
    /\ {Stored[i] : i \in 1..3} = Samples

\* max() and min() have returned the largest and the smallest of each whole
\* column; for the example (50, 300) and (10, 100).
MaxMinOverAll ==
    /\ pc[Main] = "max_ret" =>
          /\ got[Main].ok
          /\ \E i \in 1..Len(h_cpu) : got[Main].cpu = h_cpu[i]
          /\ \A i \in 1..Len(h_cpu) : FracLE(h_cpu[i], got[Main].cpu)
          /\ \E i \in 1..Len(h_rss) : got[Main].rss = h_rss[i]
          /\ \A i \in 1..Len(h_rss) : h_rss[i] <= got[Main].rss
          /\ ExampleStored => got[Main] = Result(TRUE, F(50), 300)
    /\ pc[Main] = "min_ret" =>
          /\ got[Main].ok
          /\ \E i \in 1..Len(h_cpu) : got[Main].cpu = h_cpu[i]
          /\ \A i \in 1..Len(h_cpu) : FracLE(got[Main].cpu, h_cpu[i])
          /\ \E i \in 1..Len(h_rss) : got[Main].rss = h_rss[i]
          /\ \A i \in 1..Len(h_rss) : got[Main].rss <= h_rss[i]
          /\ ExampleStored => got[Main] = Result(TRUE, F(10), 100)

\* ave() has returned the mean of the whole cpu column.
CpuMeanOverAll ==
    pc[Main] = "ave_ret" =>
        /\ got[Main].ok
        /\ FracMul(got[Main].cpu, F(Len(h_cpu))) = CpuSumFrom(1)
        /\ ExampleStored => got[Main] = Result(TRUE, F(30), 200)

\* C7 as stated: max, min and mean are taken per column over the whole
\* stored sequence wherever the read cursor is, the mean being
\* (sum of cpu / n, sum of rss / n).
C7_StatsWithExactMean ==
    /\ MaxMinOverAll
    /\ CpuMeanOverAll
    /\ pc[Main] = "ave_ret" => got[Main].rss * Len(h_rss) = RssSumFrom(1)

\* C7, amended: max, min and mean are taken per column over the whole stored
\* sequence wherever the read cursor is; the cpu mean is sum / n and the rss
\* mean is sum / n rounded down to an integer.
C7_StatsWithFloorMean ==
    /\ MaxMinOverAll
    /\ CpuMeanOverAll
    /\ pc[Main] = "ave_ret" =>
          /\ got[Main].rss * Len(h_rss) <= RssSumFrom(1)
          /\ RssSumFrom(1) < (got[Main].rss + 1) * Len(h_rss)

C7_Witness ==
    /\ pc[Main] = "ave_ret"
    /\ ExampleStored
    /\ h_read < h_index
    /\ got[Main] = Result(TRUE, F(30), 200)
\* The configured rate is strictly greater than half the clock ticks.
AboveHalfClk == 2 * rate.n > CLK_TCK * rate.d

\* Nothing of run() has happened: no counter read, no thread, no sample.
NothingStarted ==
    /\ pc[Main] \in {"main_l193", "exited"}
    /\ pc[Printer] = "not_started"
    /\ prev_cpu = NoSnapshot
    /\ diff_cpu = NoSnapshot
    /\ rss = 0
    /\ h_cpu = <<>>
    /\ h_rss = <<>>
    /\ h_index = -1
    /\ output = <<>>

SummaryPrinted == \E i \in 1..Len(output) : output[i] = "summary"

\* The sampling loop started and run() has returned or raised.
RunOver == pc[Main] = "exited" /\ stopped_by # None

\* C9: however the sampling loop ends (tick budget used up, interrupt, reader
\* failure), no further tick is started, and once the run is over the summary
\* has been printed exactly if at least one sample was appended.
C9_SummaryIffSampled ==
    /\ stopped_by # None => pc[Main] \notin TryBlock
    /\ RunOver => (SummaryPrinted <=> h_index >= 0)
\* A step in which read_stat (line 156) or read_smaps (line 160) raises.
ReadFailed == pc[Main] \in {"run_l156", "run_l160"} /\ exc' # None

\* C10: a tick in which read_stat or read_smaps fails leaves the loop without
\* calling append(), and the stored samples and the write cursor stay as they
\* were; every stored sample has a cpu value and an rss value, the two
\* computed in the tick that appended it.
C10_NoPartialSample ==
    /\ [](h_index + 1 <= Len(h_cpu) /\ h_index + 1 <= Len(h_rss))
    /\ [][ReadFailed =>
              /\ pc'[Main] = "run_l167"
              /\ UNCHANGED histVars]_vars
    /\ [][stopped_by = "failure" =>
              /\ pc'[Main] \notin TryBlock
              /\ UNCHANGED <<h_cpu, h_rss, h_index>>]_vars
    /\ [][pc[Main] \in {"run_l162", "append_acquire", "append_l47",
                        "append_l48", "append_l49"} =>
              UNCHANGED <<cpu_usage, rss>>]_vars
    /\ [][h_index' # h_index =>
              /\ pc[Main] = "append_l49"
              /\ h_index' = h_index + 1
              /\ Len(h_cpu) = h_index' + 1
              /\ Len(h_rss) = h_index' + 1
              /\ Stored'[h_index' + 1] = [cpu |-> cpu_usage, rss |-> rss]
              /\ \A i \in 1..(h_index + 1) : Stored'[i] = Stored[i]]_vars

C10_Witness ==
    /\ stopped_by = "failure"
    /\ pc[Main] = "exited"
    /\ h_index = 0
    /\ Len(h_cpu) = 1
    /\ Len(h_rss) = 1
    /\ cpu_usage # h_cpu[1]
\* The three ways out of the sampling loop.
LoopEnds == {"exhausted", "interrupt", "failure"}

\* The main thread is inside hist.term().
InTerm == pc[Main] \in {"term_acquire", "term_l63", "term_l64"}

\* C11: every way out of the sampling loop (tick budget used up, interrupt,
\* reader failure) leads to line 167; term() is called there and nowhere
\* else, on a History not yet terminated, the call sets the flag, and no
\* second call follows: term() is called exactly once per run.
C11_TermExactlyOnce ==
    /\ [][(pc[Main] \in TryBlock /\ pc'[Main] \notin TryBlock) =>
              (pc'[Main] = "run_l167" /\ stopped_by' \in LoopEnds)]_vars
    /\ [][(~InTerm /\ InTerm') =>
              (pc[Main] = "run_l167" /\ ~h_term /\ stopped_by \in LoopEnds)]_vars
    /\ [][(InTerm /\ ~InTerm') => (pc'[Main] = "term_ret" /\ h_term')]_vars
    /\ [](h_term => (stopped_by \in LoopEnds /\ pc[Main] \notin TryBlock
                         /\ pc[Main] # "run_l167"))
    /\ [](RunOver => h_term)
    /\ [][(pc[Main] = "run_l167" /\ pc'[Main] # "run_l167") =>
              pc'[Main] = "term_acquire"]_vars

C11_Witness ==
    /\ stopped_by = "interrupt"
    /\ pc[Main] = "term_ret"
    /\ h_term
    /\ h_index >= 0
\* The positions inside the with block of append().
InAppend == {"append_l47", "append_l48", "append_l49", "append_l50"}

\* The positions at which a thread asks for the History lock.
AtLock ==
    {"append_acquire", "term_acquire", "empty_acquire", "max_acquire",
     "min_acquire", "ave_acquire", "get_acquire", "get_woken",
     "is_term_acquire"}

\* print_t is running print_lines.
PrinterAlive == pc[Printer] \notin {"not_started", "print_done"}

\* C12: the producer never blocks on the consumer. A consumer waiting in
\* get() does not hold the lock; inside append() every step can be taken
\* however far the read cursor is behind; at the entry of append() the lock is
\* free or held by a consumer that can step on and release it; and the
\* consumer can always step except while it waits in get() or while the
\* producer, itself able to step, holds the lock.
C12_ProducerNeverBlocks ==
    /\ pc[Printer] = "get_wait" => cv_owner # Printer
    /\ pc[Main] \in InAppend => (cv_owner = Main /\ ENABLED append(Main))
    /\ pc[Main] = "append_acquire" =>
          \/ ENABLED append(Main)
          \/ /\ cv_owner = Printer
             /\ pc[Printer] \in {"get_l54", "get_l56", "is_term_l68"}
             /\ ENABLED Consumer
    /\ (PrinterAlive /\ ~ENABLED Consumer) =>
          \/ pc[Printer] = "get_wait"
          \/ /\ pc[Printer] \in AtLock
             /\ cv_owner = Main
             /\ ENABLED Producer

C12_Witness ==
    /\ pc[Main] = "append_ret"
    /\ h_index = 1
    /\ h_read = -1
    /\ pc[Printer] = "get_woken"
\* C13: in every reachable state, after any interleaving of append(), get()
\* and term(), the read cursor is at most the write cursor.
C13_ReadAtMostWrite == -1 <= h_read /\ h_read <= h_index

C13_Witness ==
    /\ h_term
    /\ h_index = 1
    /\ h_read = 1
    /\ pc[Printer] = "get_ret"
    /\ got[Printer].ok
\* C14: once the terminal flag is set no step clears it, whichever operation
\* the step belongs to, and a term() running on a terminated History leaves
\* every field of the History as it was.
C14_TermIsSticky ==
    /\ [][h_term => h_term']_vars
    /\ [][(h_term /\ pc[Main] \in {"term_l63", "term_l64"}) =>
              UNCHANGED histVars]_vars

C14_Witness ==
    /\ h_term
    /\ pc[Main] = "term_l63"
    /\ h_index >= 0
    /\ h_read = h_index
\* The step in which get() returns.
GetReturns == pc[Printer] = "get_l56" /\ pc'[Printer] = "get_ret"

\* C15: get() returns ok = True only if a sample beyond the read cursor
\* exists at that moment, and the read cursor then advances by exactly one;
\* it returns ok = False only if the History is terminated and the read cursor
\* equals the write cursor, and the read cursor then stays; a get() that was
\* woken for any reason tests the condition again before it returns.
C15_GetReturnConditions ==
    /\ [][GetReturns =>
              IF got'[Printer].ok
              THEN h_read < h_index /\ h_read' = h_read + 1
              ELSE h_term /\ h_read = h_index /\ h_read' = h_read]_vars
    /\ [][pc[Printer] = "get_woken" =>
              pc'[Printer] \in {"get_woken", "get_l54"}]_vars
    /\ [][pc'[Printer] = "get_ret" => pc[Printer] \in {"get_ret", "get_l56"}]_vars

C15_Witness ==
    /\ pc[Printer] = "get_ret"
    /\ got[Printer].ok
    /\ ~h_term
    /\ h_read = 0
    /\ h_index = 1
\* The producer's phase: 0 Idle (up to the start of print_t), 1 Running (the
\* try block), 2 Draining (the finally block), 3 Stopped.
Phase ==
    IF pc[Main] \in {"main_l193", "run_l133", "run_l140", "run_l141", "run_l144"}
    THEN 0
    ELSE IF pc[Main] \in TryBlock THEN 1
    ELSE IF pc[Main] = "exited" THEN 3
    ELSE 2

\* C16: the producer only moves forward through Idle, Running, Draining and
\* Stopped; it is Draining or Stopped once the loop has ended, so after an
\* interrupt or a reader failure no tick is started; and once term() has
\* been called nothing is appended to the History.
C16_ProducerMovesForward ==
    /\ [][Phase' >= Phase]_vars
    /\ [](stopped_by # None => Phase >= 2)
    /\ [](h_term => Phase >= 2)
    /\ [][(Phase >= 2 /\ pc[Main] # "run_l167") =>
              UNCHANGED <<h_cpu, h_rss, h_index>>]_vars

C16_Witness ==
    /\ stopped_by = "interrupt"
    /\ pc[Main] = "run_end"
    /\ Len(h_cpu) = 1
    /\ Len(h_rss) = 0
    /\ h_index = -1
\* The consumer is inside get(), not yet past the loop of lines 54-55.
InGetLoop == pc[Printer] \in {"get_l54", "get_wait", "get_woken"}

\* C17: no wakeup is lost. When the consumer is inside get(), blocked in
\* wait() included, and a sample lies beyond the read cursor, then under fair
\* scheduling of both threads that get() returns with ok = True.
C17_NoLostWakeup ==
    (InGetLoop /\ h_read < h_index) ~> (pc[Printer] = "get_ret" /\ got[Printer].ok)

C17_Witness ==
    /\ pc[Printer] = "get_woken"
    /\ pc[Main] = "append_ret"
    /\ h_read = -1
    /\ h_index = 0
    /\ ~h_term
\* int(duration * rate) for a positive rate and a duration >= 0.
Budget == (duration * rate.n) \div rate.d

\* C18: with duration > 0 the loop, unless cut short by an interrupt or a
\* reader failure, ends exactly when int(duration * rate) samples have been
\* appended (at each loop test the samples appended and the ticks left add
\* up to that number), and line 167 with term() follows; with duration = 0
\* ticks are always left, and the loop ends only by an interrupt or a reader
\* failure.
C18_TickBudget ==
    /\ []((duration > 0 /\ pc[Main] = "run_l150") =>
             (times >= 0 /\ h_index + 1 + times = Budget))
    /\ [](stopped_by = "exhausted" =>
             /\ duration > 0
             /\ times = 0
             /\ h_index + 1 = Budget
             /\ Len(h_cpu) = Budget
             /\ Len(h_rss) = Budget)
    /\ [][(pc[Main] = "run_l150" /\ stopped_by' = "exhausted") =>
              pc'[Main] = "run_l167"]_vars
    /\ []((duration = 0 /\ pc[Main] = "run_l150") => times > 0)
    /\ [](duration = 0 => stopped_by \in {None, "interrupt", "failure"})

C18_Witness ==
    /\ stopped_by = "exhausted"
    /\ rate = Frac(1, 2)
    /\ duration = 4
    /\ h_index = 1
    /\ h_term
\* The main thread is computing or printing the summary (lines 109-116).
InSummary ==
    pc[Main] \in {"max_acquire", "max_l76", "max_ret", "min_acquire", "min_l80",
                  "min_ret", "ave_acquire", "ave_l84", "ave_ret", "summary_l112"}

\* C19: term() comes before the join, the join before the emptiness check
\* and the emptiness check before the summary. From the join on print_t has
\* exited and no step changes the History, so the statistics are computed on
\* a History at rest, and the summary is the last thing printed.
C19_SummaryAfterConsumer ==
    /\ [](pc[Main] \in AfterJoin => (h_term /\ pc[Printer] = "print_done"))
    /\ [](SummaryPrinted =>
             (pc[Printer] = "print_done" /\ output[Len(output)] = "summary"))
    /\ [][pc[Main] \in AfterJoin => UNCHANGED histVars]_vars
    /\ [][(pc[Main] # "empty_acquire" /\ pc'[Main] = "empty_acquire") =>
              (pc[Main] = "term_ret" /\ h_term)]_vars
    /\ [][(~InSummary /\ InSummary') =>
              (pc[Main] = "empty_ret" /\ ~got[Main].ok)]_vars
    /\ [][output' # output /\ SummaryPrinted' =>
              (pc[Main] = "summary_l112" /\ ~SummaryPrinted)]_vars

C19_Witness ==
    /\ SummaryPrinted
    /\ Lines >= 1
    /\ pc[Main] = "run_end"
    /\ pc[Printer] = "print_done"
\* The positions inside a with self._cv block, the lock held.
Critical ==
    {"append_l47", "append_l48", "append_l49", "append_l50", "get_l54",
     "get_l56", "term_l63", "term_l64", "is_term_l68", "empty_l72", "max_l76",
     "min_l80", "ave_l84"}

\* At most one thread is inside a critical section, and it is the one that
\* holds the lock.
MutualExclusion ==
    /\ \A t \in Threads : pc[t] \in Critical <=> cv_owner = t
    /\ cv_owner \in Threads \cup {Free}

\* The two lists and the write cursor agree.
StoreConsistent ==
    /\ Len(h_cpu) = Len(h_rss)
    /\ h_index = Len(h_cpu) - 1

\* C20: History operations exclude each other, and whenever no thread holds
\* the lock the cpu list and the rss list have the same length and the write
\* cursor is that length minus one.
C20_ExclusiveAndConsistent ==
    /\ MutualExclusion
    /\ cv_owner = Free => StoreConsistent
====
